---- MODULE Spec2Model ----
(***************************************************************************)
(* Model of nextcord.ext.help_commands.paginated: PaginatedHelpCommand,    *)
(* HelpPageSource and HelpButtonMenuPages.                                 *)
(*                                                                         *)
(* A Python string is a sequence of tokens (each token a piece of text),   *)
(* so that an f-string is a concatenation and a rendered text can be taken *)
(* apart again.  The empty string is <<>>.                                 *)
(***************************************************************************)
EXTENDS Integers, Sequences, FiniteSets, TLC

\* Number of help invocations a behaviour may hold (menus stay open).
MaxInvocations == 2

\* (variant) three entries per page
PerPageThree == 2 + 1

\* ListPageSource(data, per_page=2)
PerPage == 2

-----------------------------------------------------------------------------
(* Python values *)

\* None, where the code expects a string (Command.help of an undocumented command)
NoneValue == <<"<None>">>

\* nextcord.Embed.Empty: an embed attribute that was never set
EmbedEmpty == <<"<Embed.Empty>">>

\* truth value of a string-or-None: "if cog.description", "if group.help", "x or y"
Truthy(s) == s # NoneValue /\ s # <<>>

\* str(n) for the page numbers of a footer
DigitStr == <<"0", "1", "2", "3", "4", "5", "6", "7", "8", "9">>

IntToStr(n) == DigitStr[n + 1]

\* sep.join(parts)
RECURSIVE Join(_, _)
Join(sep, parts) ==
    IF parts = <<>> THEN <<>>
    ELSE IF Len(parts) = 1 THEN Head(parts)
    ELSE Head(parts) \o sep \o Join(sep, Tail(parts))

-----------------------------------------------------------------------------
(* The bot the help command is installed in: users, commands, cogs *)

Users == {"alice", "bob", "carol"}

Cmd(name, qualified, signature, short, help, hidden, allowed, group, subs) ==
    [name |-> name, qualified_name |-> qualified, signature |-> signature,
     short_doc |-> short, help |-> help, hidden |-> hidden, allowed |-> allowed,
     is_group |-> group, commands |-> subs]

CmdKick == Cmd(<<"kick">>, <<"kick">>, <<"<member>">>, <<"Kick a member">>,
               <<"Kick a member", "\n", "Needs kick rights">>, FALSE, {"alice"}, FALSE, <<>>)
CmdBan == Cmd(<<"ban">>, <<"ban">>, <<"<member>">>, <<>>, NoneValue, FALSE, {"alice"}, FALSE, <<>>)
CmdRoll == Cmd(<<"roll">>, <<"roll">>, <<"[sides]">>, <<"Roll a die">>, <<"Roll a die">>,
               FALSE, {"alice", "bob"}, FALSE, <<>>)
CmdSecret == Cmd(<<"secret">>, <<"secret">>, <<>>, <<"Hidden">>, <<"Hidden">>, TRUE, Users, FALSE, <<>>)
CmdSub == Cmd(<<"sub">>, <<"math sub">>, <<"<a> <b>">>, <<"Subtract">>, <<"Subtract">>,
              FALSE, {"alice", "bob"}, FALSE, <<>>)
CmdAdd == Cmd(<<"add">>, <<"math add">>, <<"<a> <b>">>, <<>>, <<>>, FALSE, {"alice", "bob"}, FALSE, <<>>)
CmdRoot == Cmd(<<"root">>, <<"math root">>, <<"<a>">>, <<"Square root">>, <<"Square root">>,
               FALSE, {"alice"}, FALSE, <<>>)
CmdNeg == Cmd(<<"neg">>, <<"math neg">>, <<"<a>">>, <<"Negate">>, <<"Negate">>, TRUE, Users, FALSE, <<>>)
CmdMath == Cmd(<<"math">>, <<"math">>, <<>>, <<"Arithmetic">>, <<"Arithmetic">>, FALSE,
               {"alice", "bob"}, TRUE, <<CmdSub, CmdNeg, CmdRoot, CmdAdd>>)
CmdKey == Cmd(<<"key">>, <<"key">>, <<>>, <<"The key">>, <<"The key">>, TRUE, Users, FALSE, <<>>)
CmdPlay == Cmd(<<"play">>, <<"play">>, <<"<song>">>, <<"Play a song">>, <<"Play a song">>,
               FALSE, {"alice", "bob"}, FALSE, <<>>)
CmdHelp == Cmd(<<"help">>, <<"help">>, <<"[command]">>, <<"Shows this message">>,
               <<"Shows this message">>, TRUE, Users, FALSE, <<>>)
CmdPing == Cmd(<<"ping">>, <<"ping">>, <<>>, <<>>, <<>>, FALSE, {"alice", "bob"}, FALSE, <<>>)

Cog(qualified, description, cmds) ==
    [none |-> FALSE, qualified_name |-> qualified, description |-> description, commands |-> cmds]

\* the key None of the mapping: no cog
NoCog == [none |-> TRUE, qualified_name |-> <<>>, description |-> <<>>, commands |-> <<>>]

CogAdmin == Cog(<<"Admin">>, <<"Administration">>, <<CmdKick, CmdBan>>)
CogFun == Cog(<<"Fun">>, <<>>, <<CmdSecret, CmdRoll>>)
CogMath == Cog(<<"Math">>, <<"Numbers">>, <<CmdMath>>)
CogVault == Cog(<<"Vault">>, <<"Locked away">>, <<CmdKey>>)
CogMusic == Cog(<<"Music">>, <<>>, <<CmdPlay>>)

\* mapping.items(): (cog, commands) in the order of the dict
Mapping ==
    << [cog |-> CogAdmin, commands |-> CogAdmin.commands],
       [cog |-> CogFun, commands |-> CogFun.commands],
       [cog |-> CogMath, commands |-> CogMath.commands],
       [cog |-> CogVault, commands |-> CogVault.commands],
       [cog |-> CogMusic, commands |-> CogMusic.commands],
       [cog |-> NoCog, commands |-> <<CmdPing, CmdHelp>>] >>

\* the contexts a help invocation may come with
Contexts ==
    { [author |-> "alice", clean_prefix |-> <<"!">>, invoked_with |-> <<"help">>],
      [author |-> "bob", clean_prefix |-> <<"?">>, invoked_with |-> <<"h">>],
      [author |-> "carol", clean_prefix |-> <<"!">>, invoked_with |-> <<"h">>] }

\* what send_cog_help, send_group_help and send_command_help are asked about
HelpCogs == {CogAdmin, CogFun}
HelpGroups == {CmdMath}
HelpCommands == {CmdBan, CmdPing}

-----------------------------------------------------------------------------
(* commands.HelpCommand.filter_commands(commands, sort=True) *)

\* the order of str on the command names
NameOrder == <<"add", "ban", "help", "key", "kick", "math", "neg", "ping", "play", "roll",
               "root", "secret", "sub">>

Rank(name) == CHOOSE i \in 1..Len(NameOrder) : NameOrder[i] = name[1]

\* list.sort(key=lambda c: c.name), stable
RECURSIVE InsertSorted(_, _)
InsertSorted(c, sorted) ==
    IF sorted = <<>> THEN <<c>>
    ELSE IF Rank(c.name) < Rank(Head(sorted).name) THEN <<c>> \o sorted
    ELSE <<Head(sorted)>> \o InsertSorted(c, Tail(sorted))

RECURSIVE SortByName(_)
SortByName(cmds) ==
    IF cmds = <<>> THEN <<>>
    ELSE InsertSorted(cmds[Len(cmds)], SortByName(SubSeq(cmds, 1, Len(cmds) - 1)))

\* Command.can_run(ctx): the command's checks pass for the author of the context
CanRun(c, ctx) == ctx.author \in c.allowed

\* hidden commands are dropped (show_hidden is False), then those that cannot run
PassesFilter(c, ctx) == ~c.hidden /\ CanRun(c, ctx)

FilterCommands(ctx, cmds) ==
    SortByName(SelectSeq(cmds, LAMBDA c : PassesFilter(c, ctx)))

-----------------------------------------------------------------------------
(* PaginatedHelpCommand: the formatting callbacks *)

Min(a, b) == IF a < b THEN a ELSE b

\* get_command_signature
GetCommandSignature(ctx, command) ==
    ctx.clean_prefix \o command.qualified_name \o <<" ">> \o command.signature

\* the description of the "Bot Commands" embed
UsageDescription(prefix, invoked_with) ==
    <<"Use \"">> \o prefix \o invoked_with \o <<" command\" for more info on a command.">>
    \o <<"\n">>
    \o <<"Use \"">> \o prefix \o invoked_with \o <<" category\" for more info on a category.">>

\* name = "No Category" if cog is None else cog.qualified_name
CategoryName(cog) == IF cog.none THEN <<"No Category">> ELSE cog.qualified_name

\* (variant) the commands are listed as given, without the filter
FilteredNot(ctx, cmds) == SortByName(cmds)

\* filtered = await self.filter_commands(commands, sort=True)
Filtered(ctx, cmds) == FilterCommands(ctx, cmds)

\* the en space (U+2002) the commands of a category are joined by
EnSpace == <<"U+2002">>

\* the backtick character
Backtick == <<"BACKTICK">>

\* one command of a category: prefix and name between backticks
CommandEntry(prefix, c) == Backtick \o prefix \o c.name \o Backtick

\* (variant) the description line is written for every cog, described or not
CategoryValueAlways(prefix, cog, filtered) ==
    LET value == Join(EnSpace,
                      [i \in 1..Len(filtered) |-> CommandEntry(prefix, filtered[i])])
    IN  IF ~cog.none THEN cog.description \o <<"\n">> \o value ELSE value

\* the value of a category's field, its commands joined by an en space
CategoryValue(prefix, cog, filtered) ==
    LET value == Join(EnSpace,
                      [i \in 1..Len(filtered) |-> CommandEntry(prefix, filtered[i])])
    IN  IF ~cog.none /\ Truthy(cog.description)
        THEN cog.description \o <<"\n">> \o value
        ELSE value

\* the loop of send_bot_help over mapping.items(): the list of (name, value) pairs
RECURSIVE EmbedFields(_, _)
EmbedFields(ctx, items) ==
    IF items = <<>> THEN <<>>
    ELSE LET cog == Head(items).cog
             filtered == Filtered(ctx, Head(items).commands)
         IN  (IF filtered # <<>>
              THEN << <<CategoryName(cog), CategoryValue(ctx.clean_prefix, cog, filtered)>> >>
              ELSE <<>>)
             \o EmbedFields(ctx, Tail(items))

\* (variant) the short doc is used as it is
ShortDocRaw(command) == command.short_doc

\* value=command.short_doc or "..."
ShortDocOrDots(command) == IF Truthy(command.short_doc) THEN command.short_doc ELSE <<"...">>

\* one embed.add_field(name=signature, value=short doc, inline=False) per filtered command
CommandFields(ctx, filtered) ==
    [i \in 1..Len(filtered) |->
        [name |-> GetCommandSignature(ctx, filtered[i]),
         value |-> ShortDocOrDots(filtered[i]),
         inline |-> FALSE]]

\* the embed send_cog_help sends
CogHelpEmbed(ctx, cog) ==
    [title |-> cog.qualified_name \o <<" Commands">>,
     description |-> IF Truthy(cog.description) THEN cog.description ELSE EmbedEmpty,
     fields |-> CommandFields(ctx, Filtered(ctx, cog.commands)),
     footer |-> <<"Use ">> \o ctx.clean_prefix \o <<"help [command] for more info on a command.">>]

\* isinstance(group, commands.Group)
IsGroup(group) == group.is_group

\* the embed send_group_help (and send_command_help, the same function) sends
GroupHelpEmbed(ctx, group) ==
    [title |-> group.qualified_name,
     description |-> IF Truthy(group.help) THEN group.help ELSE EmbedEmpty,
     fields |-> IF IsGroup(group) THEN CommandFields(ctx, Filtered(ctx, group.commands)) ELSE <<>>,
     footer |-> EmbedEmpty]

-----------------------------------------------------------------------------
(* HelpPageSource(ListPageSource), per_page = 2 *)

\* ListPageSource.__init__: pages, left_over = divmod(len(entries), per_page)
GetMaxPages(entries) ==
    LET pages == Len(entries) \div PerPage
        left_over == Len(entries) % PerPage
    IN  IF left_over # 0 THEN pages + 1 ELSE pages

\* ListPageSource.is_paginating
IsPaginating(entries) == Len(entries) > PerPage

\* ListPageSource.get_page: entries[base:base + per_page]
GetPage(entries, page_number) ==
    LET base == page_number * PerPage
    IN  SubSeq(entries, base + 1, Min(base + PerPage, Len(entries)))

\* HelpPageSource.__init__: self._help_command = help_command
NewSource(help_command, data) == [_help_command |-> help_command, entries |-> data]

\* (variant) every page source reads the help command of the latest invocation
FormatPageLatestHelpCommand(hcs, source) == Len(hcs)

\* the help command format_page reads its prefix and invoked_with from
FormatPageHelpCommand(hcs, source) == source._help_command

\* HelpPageSource.format_page(menu, entries)
FormatPage(hcs, ctxs, source, current_page, entries) ==
    LET ctx == ctxs[hcs[FormatPageHelpCommand(hcs, source)].context]
    IN  [title |-> <<"Bot Commands">>,
         description |-> UsageDescription(ctx.clean_prefix, ctx.invoked_with),
         fields |-> [i \in 1..Len(entries) |->
                        [name |-> entries[i][1], value |-> entries[i][2], inline |-> TRUE]],
         footer |-> <<"Page ", IntToStr(current_page + 1), "/",
                      IntToStr(GetMaxPages(source.entries))>>]

-----------------------------------------------------------------------------
(* HelpButtonMenuPages(ButtonMenuPages) *)

NoEmbed == [title |-> EmbedEmpty, description |-> EmbedEmpty, fields |-> <<>>, footer |-> EmbedEmpty]

\* the slot of an invocation that started no menu
NoMenu ==
    [exists |-> FALSE, _ctx |-> 0, source |-> NewSource(0, <<>>), current_page |-> 0,
     running |-> FALSE, message |-> NoEmbed]

\* HelpButtonMenuPages.__init__(ctx, source=..., disable_buttons_after=True): self._ctx = ctx
NewMenu(ctx, source) ==
    [exists |-> TRUE, _ctx |-> ctx, source |-> source, current_page |-> 0,
     running |-> FALSE, message |-> NoEmbed]

\* MenuPagesBase.show_page: the page is fetched, formatted and put into the message
ShowPage(hcs, ctxs, menu, page_number) ==
    [menu EXCEPT !.current_page = page_number,
                 !.message = FormatPage(hcs, ctxs, menu.source, page_number,
                                        GetPage(menu.source.entries, page_number))]

\* pages.start(ctx): the first page is sent and the menu listens to its buttons
MenuStart(hcs, ctxs, menu) == [ShowPage(hcs, ctxs, menu, 0) EXCEPT !.running = TRUE]

\* (variant) every user may press the buttons
InteractionCheckAnyone(ctxs, menu, user) == TRUE

\* HelpButtonMenuPages.interaction_check: self._ctx.author == interaction.user
InteractionCheck(ctxs, menu, user) == ctxs[menu._ctx].author = user

Buttons == {"first", "previous", "next", "last", "stop"}

\* buttons are added only when the source paginates; first and last need more than 2 pages
ButtonPresent(entries, b) ==
    /\ IsPaginating(entries)
    /\ b \in {"first", "last"} => GetMaxPages(entries) > 2

\* MenuPagesBase.show_checked_page: only a page number within the pages is shown
CheckedPage(current_page, page_number, max_pages) ==
    IF max_pages > page_number /\ page_number >= 0 THEN page_number ELSE current_page

\* the page a button leads to
ButtonPage(current_page, b, max_pages) ==
    CASE b = "first" -> 0
      [] b = "previous" -> CheckedPage(current_page, current_page - 1, max_pages)
      [] b = "next" -> CheckedPage(current_page, current_page + 1, max_pages)
      [] b = "last" -> max_pages - 1
      [] OTHER -> current_page

\* the callback of a button, run when interaction_check allowed the interaction
PressButton(hcs, ctxs, menu, b) ==
    LET max_pages == GetMaxPages(menu.source.entries)
        page_number == ButtonPage(menu.current_page, b, max_pages)
    IN  IF b = "stop" THEN [menu EXCEPT !.running = FALSE]
        ELSE IF b \in {"previous", "next"} /\ page_number = menu.current_page THEN menu
        ELSE ShowPage(hcs, ctxs, menu, page_number)

-----------------------------------------------------------------------------
(* State *)

VARIABLES
    HAS_MENUS,      \* whether "from nextcord.ext import menus" succeeded
    help_command,   \* bot.help_command: was it built, did the base initialiser run
    raised,         \* the error the constructor raised, <<>> if none
    contexts,       \* the Context of each invocation
    helpCommands,   \* the copy of the help command each invocation runs on
    invocations,    \* history: what each invocation was asked, and by whom
    menus,          \* the menu of each invocation (NoMenu if it started none)
    outputs,        \* the embeds each invocation sent to its destination, the menus it started
    authorView,     \* history: page and running flag had only the invoker pressed buttons
    lastCheck       \* the last interaction_check: menu, user and result

vars == <<HAS_MENUS, help_command, raised, contexts, helpCommands, invocations, menus,
          outputs, authorView, lastCheck>>

Init ==
    /\ HAS_MENUS \in BOOLEAN
    /\ help_command = [built |-> FALSE, base_init |-> FALSE]
    /\ raised = <<>>
    /\ contexts = <<>>
    /\ helpCommands = <<>>
    /\ invocations = <<>>
    /\ menus = <<>>
    /\ outputs = <<>>
    /\ authorView = <<>>
    /\ lastCheck = [menu |-> 0, user |-> "", allowed |-> FALSE]

-----------------------------------------------------------------------------
(* PaginatedHelpCommand.__init__ *)

\* (variant) the constructor does not look at HAS_MENUS
ConstructNeverRaises == FALSE

\* if not HAS_MENUS: raise MissingDependencyError(...)
ConstructRaises == ~HAS_MENUS

\* MissingDependencyError(self.__class__.__name__, "nextcord-ext-menus", "menus")
MissingDependencyError == <<"MissingDependencyError", "PaginatedHelpCommand", "nextcord-ext-menus", "menus">>

\* bot.help_command = PaginatedHelpCommand()
Construct ==
    /\ ~help_command.built
    /\ IF ConstructRaises
       THEN /\ raised' = MissingDependencyError
            /\ UNCHANGED help_command
       ELSE /\ help_command' = [built |-> TRUE, base_init |-> TRUE]
            /\ UNCHANGED raised
    /\ UNCHANGED <<HAS_MENUS, contexts, helpCommands, invocations, menus, outputs,
                   authorView, lastCheck>>

\* The framework runs each invocation on a copy of the help command (built by the
\* constructor again) whose context is the invocation's.
CanInvoke ==
    /\ help_command.built
    /\ ~ConstructRaises
    /\ Len(invocations) < MaxInvocations

Prepared(ctx) ==
    LET i == Len(invocations) + 1
    IN  [id |-> i, ctxs |-> Append(contexts, ctx), hcs |-> Append(helpCommands, [context |-> i])]

\* self.context of the copy an invocation runs on
SelfContext(p) == p.ctxs[p.hcs[p.id].context]

Record(p, kind, target, menu, sent, started) ==
    /\ contexts' = p.ctxs
    /\ helpCommands' = p.hcs
    /\ invocations' = Append(invocations,
                             [kind |-> kind, target |-> target, invoker |-> SelfContext(p).author,
                              prefix |-> SelfContext(p).clean_prefix,
                              invoked_with |-> SelfContext(p).invoked_with])
    /\ menus' = Append(menus, menu)
    /\ outputs' = Append(outputs, [sent |-> sent, started |-> started])
    /\ authorView' = Append(authorView, [page |-> menu.current_page, running |-> menu.running])
    /\ UNCHANGED <<HAS_MENUS, help_command, raised, lastCheck>>

-----------------------------------------------------------------------------
(* The help operations.  Each is one step: between its awaits (filter_commands,    *)
(* pages.start, destination.send) a handler reads and writes only its locals and  *)
(* the copy of the help command it runs on, which no other invocation holds.      *)

\* the embed send_bot_help builds locally
BotHelpEmbed(ctx) ==
    [title |-> <<"Bot Commands">>,
     description |-> UsageDescription(ctx.clean_prefix, ctx.invoked_with),
     fields |-> <<>>, footer |-> EmbedEmpty]

\* (variant) send_bot_help also sends the embed it built
BotHelpSentEmbed(ctx) == <<BotHelpEmbed(ctx)>>

\* what send_bot_help sends to the destination itself: nothing, the menu sends the pages
BotHelpSent(ctx) == <<>>

SendBotHelp(ctx) ==
    /\ CanInvoke
    /\ LET p == Prepared(ctx)
           embed_fields == EmbedFields(SelfContext(p), Mapping)
           pages == NewMenu(p.hcs[p.id].context, NewSource(p.id, embed_fields))
       IN  Record(p, "bot", NoCog, MenuStart(p.hcs, p.ctxs, pages), BotHelpSent(SelfContext(p)), 1)

\* await self.get_destination().send(embed=embed)
CogHelpSent(ctx, cog) == <<CogHelpEmbed(ctx, cog)>>

SendCogHelp(ctx, cog) ==
    /\ CanInvoke
    /\ LET p == Prepared(ctx)
       IN  Record(p, "cog", cog, NoMenu, CogHelpSent(SelfContext(p), cog), 0)

\* await self.get_destination().send(embed=embed)
GroupHelpSent(ctx, group) == <<GroupHelpEmbed(ctx, group)>>

SendGroupHelp(ctx, group) ==
    /\ CanInvoke
    /\ LET p == Prepared(ctx)
       IN  Record(p, "group", group, NoMenu, GroupHelpSent(SelfContext(p), group), 0)

\* send_command_help = send_group_help
SendCommandHelp(ctx, command) ==
    /\ CanInvoke
    /\ LET p == Prepared(ctx)
       IN  Record(p, "command", command, NoMenu, GroupHelpSent(SelfContext(p), command), 0)

-----------------------------------------------------------------------------
(* The buttons of a running menu *)

\* View dispatch: the callback of the button runs only if interaction_check allows
Interact(m, user, b) ==
    /\ menus[m].exists
    /\ menus[m].running
    /\ ButtonPresent(menus[m].source.entries, b)
    /\ LET allowed == InteractionCheck(contexts, menus[m], user)
       IN  /\ lastCheck' = [menu |-> m, user |-> user, allowed |-> allowed]
           /\ menus' = IF allowed
                       THEN [menus EXCEPT ![m] = PressButton(helpCommands, contexts, menus[m], b)]
                       ELSE menus
    /\ authorView' =
         IF user = invocations[m].invoker
         THEN [authorView EXCEPT ![m] =
                 IF b = "stop" THEN [@ EXCEPT !.running = FALSE]
                 ELSE [@ EXCEPT !.page = ButtonPage(authorView[m].page, b,
                                                    GetMaxPages(menus[m].source.entries))]]
         ELSE authorView
    /\ UNCHANGED <<HAS_MENUS, help_command, raised, contexts, helpCommands, invocations, outputs>>

\* the menu times out: it stops listening (disable_buttons_after leaves the page shown)
Timeout(m) ==
    /\ menus[m].exists
    /\ menus[m].running
    /\ menus' = [menus EXCEPT ![m].running = FALSE]
    /\ authorView' = [authorView EXCEPT ![m].running = FALSE]
    /\ UNCHANGED <<HAS_MENUS, help_command, raised, contexts, helpCommands, invocations,
                   outputs, lastCheck>>

Next ==
    \/ Construct
    \/ \E ctx \in Contexts : SendBotHelp(ctx)
    \/ \E ctx \in Contexts, cog \in HelpCogs : SendCogHelp(ctx, cog)
    \/ \E ctx \in Contexts, group \in HelpGroups : SendGroupHelp(ctx, group)
    \/ \E ctx \in Contexts, command \in HelpCommands : SendCommandHelp(ctx, command)
    \/ \E m \in DOMAIN menus, user \in Users, b \in Buttons : Interact(m, user, b)
    \/ \E m \in DOMAIN menus : Timeout(m)

Spec == Init /\ [][Next]_vars

-----------------------------------------------------------------------------
(* Reading rendered texts back *)

RECURSIVE Flatten(_)
Flatten(seqs) == IF seqs = <<>> THEN <<>> ELSE Head(seqs) \o Flatten(Tail(seqs))

\* the digit a page number of a footer was written from
StrToInt(token) == CHOOSE n \in 0..9 : DigitStr[n + 1] = token

\* the command names listed between backticks in the value of a category field
NamesInValue(value) ==
    LET opening == SelectSeq([j \in 1..Len(value) |-> j],
                             LAMBDA j : /\ j + 3 <= Len(value)
                                        /\ value[j] = Backtick[1]
                                        /\ value[j + 3] = Backtick[1])
    IN  [k \in 1..Len(opening) |-> value[opening[k] + 2]]

\* the qualified name in the name of a command field: prefix, qualified name, " ", signature
QualifiedNameInField(f) == f.name[2]

NamesOf(cmds) == [k \in 1..Len(cmds) |-> cmds[k].name[1]]

QualifiedNamesOf(cmds) == [k \in 1..Len(cmds) |-> cmds[k].qualified_name[1]]

IsBot(i) == invocations[i].kind = "bot"

\* the context an invocation was made with, as the framework was given it
Given(i) ==
    [author |-> invocations[i].invoker, clean_prefix |-> invocations[i].prefix,
     invoked_with |-> invocations[i].invoked_with]

-----------------------------------------------------------------------------
(* Claims *)

MissingError == <<"MissingDependencyError", "PaginatedHelpCommand", "nextcord-ext-menus", "menus">>

\* C1: without the menus add-on (HAS_MENUS false) the constructor raises
\* MissingDependencyError naming the class and the dependency, before the base
\* initialiser runs, so no object is built and no help operation is ever reached;
\* with the add-on the constructor raises nothing.
C1_FailsAtConstruction ==
    /\ [](/\ ~HAS_MENUS => /\ ~help_command.built
                            /\ ~help_command.base_init
                            /\ raised \in {<<>>, MissingError}
                            /\ invocations = <<>> /\ menus = <<>> /\ outputs = <<>>
          /\ HAS_MENUS => raised = <<>>)
    /\ [][(~HAS_MENUS /\ Construct) => raised' = MissingError]_vars
    /\ [][(HAS_MENUS /\ Construct) => help_command'.built /\ help_command'.base_init]_vars

C1_Witness == ~HAS_MENUS /\ raised = MissingError

\* C2: interaction_check of a menu answers true for the user who invoked the help
\* command the menu belongs to, and false for every other user.
C2_OnlyInvoker ==
    /\ \A m \in DOMAIN menus :
          menus[m].exists =>
             \A u \in Users :
                InteractionCheck(contexts, menus[m], u) <=> (u = invocations[m].invoker)
    /\ lastCheck.menu # 0 =>
          (lastCheck.allowed <=> (lastCheck.user = invocations[lastCheck.menu].invoker))

C2_Witness ==
    /\ lastCheck.menu # 0
    /\ ~lastCheck.allowed
    /\ lastCheck.user # invocations[lastCheck.menu].invoker

\* C3: the page a menu shows (and whether it still runs) is the one reached by the
\* invoking user's button presses alone; a press by any other user (a step that is
\* an interaction of that user with the menu, which lastCheck then names) changes no
\* menu and no output.
C3_OthersChangeNothing ==
    /\ [](\A m \in DOMAIN menus :
             menus[m].exists => /\ menus[m].current_page = authorView[m].page
                                /\ menus[m].running = authorView[m].running)
    /\ [][LET m == lastCheck'.menu
               u == lastCheck'.user
           IN  (/\ m \in DOMAIN menus
                /\ u # invocations[m].invoker
                /\ \E b \in Buttons : Interact(m, u, b))
                  => (menus' = menus /\ outputs' = outputs)]_vars

C3_Witness ==
    /\ lastCheck.menu # 0
    /\ ~lastCheck.allowed
    /\ menus[lastCheck.menu].current_page > 0
    /\ menus[lastCheck.menu].running

\* the (name, value) pair expected of one item of the mapping for a context
ExpectedPair(ctx, it) ==
    LET listed == FilterCommands(ctx, it.commands)
        entries == [k \in 1..Len(listed) |->
                      <<"BACKTICK">> \o ctx.clean_prefix \o listed[k].name \o <<"BACKTICK">>]
        heading == IF ~it.cog.none /\ it.cog.description # <<>>
                   THEN it.cog.description \o <<"\n">>
                   ELSE <<>>
    IN  << IF it.cog.none THEN <<"No Category">> ELSE it.cog.qualified_name,
           heading \o Join(<<"U+2002">>, entries) >>

\* the (name, value) pairs expected of the mapping for a context
ExpectedPairs(ctx) ==
    LET kept == SelectSeq(Mapping,
                          LAMBDA it : \E k \in 1..Len(it.commands) :
                                         PassesFilter(it.commands[k], ctx))
    IN  [k \in 1..Len(kept) |-> ExpectedPair(ctx, kept[k])]

\* C4: the field list send_bot_help builds holds, in the order of the mapping, one
\* (name, value) pair per category with a non-empty filtered command list and none
\* for the others; the name is "No Category" or the qualified name of the cog, the
\* value the filtered sorted commands between backticks joined by an en space, after
\* the description and a newline exactly when the cog has a non-empty description.
C4_FieldList ==
    \A i \in DOMAIN invocations :
       IsBot(i) => menus[i].source.entries = ExpectedPairs(Given(i))

C4_Witness ==
    \E i \in DOMAIN invocations :
       /\ IsBot(i)
       /\ Len(menus[i].source.entries) = 5
       /\ menus[i].source.entries[1] = <<<<"Admin">>, <<"Administration", "\n", "BACKTICK", "!", "ban",
                                         "BACKTICK", "U+2002", "BACKTICK", "!", "kick", "BACKTICK">>>>
       /\ menus[i].source.entries[2] = <<<<"Fun">>, <<"BACKTICK", "!", "roll", "BACKTICK">>>>
       /\ menus[i].source.entries[5][1] = <<"No Category">>

RECURSIVE PagesUpTo(_, _)
PagesUpTo(entries, n) ==
    IF n = 0 THEN <<>> ELSE PagesUpTo(entries, n - 1) \o GetPage(entries, n - 1)

\* C5: the field list is cut into pages of 2: every page has at most 2 fields, every
\* page but the last exactly 2, the pages read in order give the list back, and the
\* embed of the page shown carries the fields of that page, in order.
C5_PagesOfTwo ==
    \A i \in DOMAIN invocations :
       IsBot(i) =>
          LET entries == menus[i].source.entries
              pages == GetMaxPages(entries)
              shown == menus[i].message.fields
              first == 2 * menus[i].current_page
          IN  /\ \A p \in 0..(pages - 1) :
                    /\ Len(GetPage(entries, p)) \in 1..2
                    /\ p < pages - 1 => Len(GetPage(entries, p)) = 2
              /\ PagesUpTo(entries, pages) = entries
              /\ Len(shown) <= 2
              /\ Len(shown) = Min(2, Len(entries) - first)
              /\ \A j \in 1..Len(shown) :
                    /\ shown[j].name = entries[first + j][1]
                    /\ shown[j].value = entries[first + j][2]

C5_Witness ==
    \E i \in DOMAIN invocations :
       /\ IsBot(i)
       /\ Len(menus[i].source.entries) = 5
       /\ menus[i].current_page = 2
       /\ Len(menus[i].message.fields) = 1

\* C6: invocations share nothing: the page a menu shows, and any page it would
\* render now, carries the prefix and invoked-with name of the invocation that made
\* the menu, the menu keeps the context of that invocation, and its check keeps
\* answering for the author of that invocation, whatever other invocations did.
C6_NoSharedState ==
    \A m \in DOMAIN menus :
       menus[m].exists =>
          LET usage == UsageDescription(invocations[m].prefix, invocations[m].invoked_with)
              now == FormatPage(helpCommands, contexts, menus[m].source, menus[m].current_page,
                                GetPage(menus[m].source.entries, menus[m].current_page))
          IN  /\ menus[m].message.description = usage
              /\ now.description = usage
              /\ contexts[menus[m]._ctx] = Given(m)
              /\ contexts[helpCommands[menus[m].source._help_command].context] = Given(m)
              /\ \A u \in Users :
                    InteractionCheck(contexts, menus[m], u) <=> (u = invocations[m].invoker)

C6_Witness ==
    /\ Len(invocations) >= 2
    /\ IsBot(1) /\ IsBot(2)
    /\ invocations[1].prefix # invocations[2].prefix
    /\ invocations[1].invoked_with # invocations[2].invoked_with
    /\ menus[1].current_page > 0
    /\ menus[2].current_page > 0
    /\ lastCheck.menu = 1 /\ lastCheck.allowed

\* the commands listed by the output of an invocation, in the order they are listed
Listed(i) ==
    IF IsBot(i)
    THEN Flatten([k \in 1..Len(menus[i].source.entries) |->
                    NamesInValue(menus[i].source.entries[k][2])])
    ELSE [k \in 1..Len(outputs[i].sent[1].fields) |->
            QualifiedNameInField(outputs[i].sent[1].fields[k])]

\* the commands an invocation was given to list: those of the mapping, or of the target
Candidates(i) ==
    IF IsBot(i) THEN Flatten([k \in 1..Len(Mapping) |-> Mapping[k].commands])
    ELSE invocations[i].target.commands

\* the commands filter_commands returned to send_bot_help for each item of the mapping
ReturnedPerItem(i) ==
    [k \in 1..Len(Mapping) |-> NamesOf(FilterCommands(Given(i), Mapping[k].commands))]

\* the commands filter_commands returned to an invocation, in the order it returned them
Returned(i) ==
    IF IsBot(i) THEN Flatten(ReturnedPerItem(i))
    ELSE QualifiedNamesOf(FilterCommands(Given(i), invocations[i].target.commands))

ListedName(i, c) == IF IsBot(i) THEN c.name[1] ELSE c.qualified_name[1]

\* C7: in the output of send_bot_help, send_cog_help and send_group_help the commands
\* listed are those filter_commands returned, each once, in the order it returned
\* them (in send_bot_help category by category); a hidden command, or one the invoker
\* may not run, is listed nowhere.
C7_OnlyFiltered ==
    \A i \in DOMAIN invocations :
       invocations[i].kind \in {"bot", "cog", "group"} =>
          LET listed == Listed(i)
              candidates == Candidates(i)
              entries == menus[i].source.entries
              perItem == ReturnedPerItem(i)
              listedSet == {listed[a] : a \in 1..Len(listed)}
          IN  /\ listed = Returned(i)
              /\ Cardinality(listedSet) = Len(listed)
              /\ \A n \in 1..Len(candidates) :
                    (candidates[n].hidden \/ invocations[i].invoker \notin candidates[n].allowed)
                       => ListedName(i, candidates[n]) \notin listedSet
              /\ IsBot(i) =>
                    \A k \in 1..Len(entries) :
                       \E j \in 1..Len(Mapping) :
                          /\ entries[k][1] = (IF Mapping[j].cog.none THEN <<"No Category">>
                                              ELSE Mapping[j].cog.qualified_name)
                          /\ NamesInValue(entries[k][2]) = perItem[j]

C7_Witness ==
    /\ Len(invocations) >= 2
    /\ invocations[1].kind = "bot" /\ invocations[1].invoker = "bob"
    /\ Listed(1) = <<"roll", "math", "play", "ping">>
    /\ invocations[2].kind = "group" /\ invocations[2].invoker = "bob"
    /\ Listed(2) = <<"math add", "math sub">>

\* the short doc of the command a field of a cog or group help embed is about
FieldShortDoc(i, f) ==
    LET candidates == Candidates(i)
        n == CHOOSE n \in 1..Len(candidates) :
                candidates[n].qualified_name[1] = QualifiedNameInField(f)
    IN  candidates[n].short_doc

\* the text the description of the embed of an invocation is taken from
DescriptionText(i) ==
    IF invocations[i].kind = "cog" THEN invocations[i].target.description
    ELSE invocations[i].target.help

\* C8: in cog, group and command help every command field has a non-empty value, the
\* short doc of its command when that is non-empty and "..." otherwise; the embed has
\* a description only when the cog description (cog help) or the help text (group and
\* command help) is non-empty, and then it is that text.
C8_Placeholders ==
    \A i \in DOMAIN invocations :
       invocations[i].kind \in {"cog", "group", "command"} =>
          LET embed == outputs[i].sent[1]
          IN  /\ \A k \in 1..Len(embed.fields) :
                    LET doc == FieldShortDoc(i, embed.fields[k])
                    IN  /\ embed.fields[k].value # <<>>
                        /\ embed.fields[k].value # NoneValue
                        /\ embed.fields[k].value = (IF doc # <<>> THEN doc ELSE <<"...">>)
              /\ embed.description # EmbedEmpty =>
                    /\ DescriptionText(i) \notin {<<>>, NoneValue}
                    /\ embed.description = DescriptionText(i)

C8_Witness ==
    \E i \in DOMAIN invocations :
       /\ invocations[i].kind = "cog"
       /\ invocations[i].target = CogAdmin
       /\ Len(outputs[i].sent[1].fields) = 2
       /\ outputs[i].sent[1].fields[1].value = <<"...">>
       /\ outputs[i].sent[1].fields[2].value = <<"Kick a member">>
       /\ outputs[i].sent[1].description = <<"Administration">>

\* C9: every page embed of a bot-help menu has the footer "Page k/N" with
\* 1 <= k <= N, N the number of pages of the field list, the empty list included.
C9_FooterInRange ==
    \A m \in DOMAIN menus :
       menus[m].exists =>
          LET footer == menus[m].message.footer
              k == StrToInt(footer[2])
              n == StrToInt(footer[4])
          IN  /\ Len(footer) = 4
              /\ footer[1] = "Page " /\ footer[3] = "/"
              /\ n = GetMaxPages(menus[m].source.entries)
              /\ 1 <= k /\ k <= n

\* C10: an invocation has exactly one output: send_bot_help starts one menu on the
\* context of the invocation and sends nothing itself; send_cog_help, send_group_help
\* and send_command_help send one embed and start no menu; for a command that is no
\* group the embed has the qualified name as its title and no fields.
C10_OneOutput ==
    /\ Len(outputs) = Len(invocations) /\ Len(menus) = Len(invocations)
    /\ \A i \in DOMAIN invocations :
          IF IsBot(i)
          THEN /\ outputs[i].started = 1
               /\ outputs[i].sent = <<>>
               /\ menus[i].exists
               /\ contexts[menus[i]._ctx] = Given(i)
          ELSE /\ outputs[i].started = 0
               /\ ~menus[i].exists
               /\ Len(outputs[i].sent) = 1
               /\ invocations[i].kind = "command" =>
                     /\ outputs[i].sent[1].title = invocations[i].target.qualified_name
                     /\ outputs[i].sent[1].fields = <<>>

C10_Witness ==
    /\ Len(invocations) >= 2
    /\ IsBot(1)
    /\ invocations[2].kind = "command"
    /\ outputs[2].sent[1].title = <<"ban">>
    /\ outputs[2].sent[1].description = EmbedEmpty

====
